---- MODULE Spec2Model ----
(***************************************************************************)
(* A model of the pool line detector: the detection pipeline of            *)
(* line_finder.py (find_lines, main) and of main.py (LineDetector.detect), *)
(* its helper functions, and the overlay's update loop of main.py.         *)
(*                                                                         *)
(* Pixel coordinates and contour points are integers, as in the code.      *)
(* Lengths the code holds as floats are kept exact: a distance is compared *)
(* by its square, a position p + (c / sqrt(n)) * d by integer arithmetic   *)
(* on p, c, d and n (StepCoord), and areas are held doubled (ContourArea2).*)
(***************************************************************************)
EXTENDS Integers, Sequences, FiniteSets, TLC

VARIABLES
    call,         \* SpecFn: the arguments of one call of a helper function
    out,          \* SpecFn: what that call returned
    conv,         \* the order in which cv2.convexHull lists a hull (fixed per run)
    img,          \* the frame under analysis: size, dark mask, white contours
    pc,           \* position in the pipeline run
    idx,          \* the contour the running loop is at (for contour in contours)
    valid_lines,  \* find_lines' local list valid_lines
    seen,         \* per contour of find_lines' loop: how far it got
    lines,        \* main's lines = find_lines(img) (line_finder.py)
    line,         \* main's line = max(lines, key=length), or NoLine
    d_valid,      \* LineDetector.detect's local list valid_lines
    d_seen,       \* per contour of detect's loop: how far it got
    result,       \* what LineDetector.detect returned, or NotRun
    memo,         \* an earlier detect call remembered: its frame and its result
    loop,         \* overlay: where the Tk event loop is
    pend,         \* overlay: pending after(..., self.update) timers
    canvas,       \* overlay: what the canvas shows
    raised,       \* overlay: the running update iteration raised in its try block
    iters,        \* overlay: update iterations started
    sched,        \* overlay: after() calls made by the running/last iteration
    lateRuns,     \* overlay: update iterations started after quit ran
    quitRan,      \* overlay: the quit handler has run
    click         \* overlay: the after(100, make_click_through) timer and its outcome

fnVars == <<call, out>>
pipeVars == <<img, pc, idx, valid_lines, seen, lines, line, d_valid, d_seen, result, memo>>
ovVars == <<loop, pend, canvas, raised, iters, sched, lateRuns, quitRan, click>>
vars == <<call, out, conv, img, pc, idx, valid_lines, seen, lines, line,
          d_valid, d_seen, result, memo, loop, pend, canvas, raised, iters, sched,
          lateRuns, quitRan, click>>

(***************************************************************************)
(* Program constants.                                                      *)
(***************************************************************************)
MIN_LINE_LENGTH == 30
MIN_LINE_THICKNESS == 2
MAX_LINE_THICKNESS == 15
MIN_AREA == 50
MIN_ASPECT == 3
CHECK_RADIUS == 20
FIRST_DIST == 3
HULL_OVER == 4
RECT_FROM == 5

(***************************************************************************)
(* Bounds of the model.                                                    *)
(***************************************************************************)
FnW == 24          \* width of the image of a direct check_black_at_ends call
FnH == 3           \* its height
GridX == 2         \* boundary points of a direct find_line_endpoints call: x in 0..GridX
MaxRot == 1        \* the hull may start at its 0th..MaxRot-th vertex
MaxContours == 2   \* white contours in one frame
ImgW == 64         \* width of a frame
BandH == 34        \* a frame is MaxContours bands of this height, a contour in each
MaxIters == 3      \* update iterations of the overlay

(***************************************************************************)
(* Python and numpy primitives.                                            *)
(***************************************************************************)
Abs(a) == IF a < 0 THEN -a ELSE a
Min2(a, b) == IF b < a THEN b ELSE a
Max2(a, b) == IF b > a THEN b ELSE a
Range(s) == {s[i] : i \in 1..Len(s)}
Norm2(dx, dy) == dx * dx + dy * dy
Dist2(p, q) == Norm2(p[1] - q[1], p[2] - q[2])

\* floor(a / sqrt(n)) for a >= 0, n > 0, where a <= d * sqrt(n)
FloorDivSqrt(a, n, d) ==
    CHOOSE k \in 0..d : k * k * n <= a * a /\ (k + 1) * (k + 1) * n > a * a

\* int(p + (c / sqrt(n)) * d): Python's int() truncates toward zero.  p >= 0.
StepCoord(p, c, n, d) ==
    LET a == Abs(c) * d
        q == FloorDivSqrt(a, n, d)
    IN  IF c >= 0 THEN p + q
        ELSE IF a * a > p * p * n THEN p - q          \* position below 0: ceiling
        ELSE IF q * q * n = a * a THEN p - q
        ELSE p - (q + 1)                              \* position >= 0: floor

\* the position p + (c / sqrt(n)) * d itself, before int(): is it in [0, size)?
PosInside(p, c, n, d, size) ==
    LET a == Abs(c) * d
    IN  IF c >= 0 THEN p < size /\ a * a < (size - p) * (size - p) * n
        ELSE p < size /\ a * a <= p * p * n

\* black_mask[y, x] > 0, the mask being the pixels of a rectangle
BlackAt(mask, x, y) ==
    mask.x0 <= x /\ x <= mask.x1 /\ mask.y0 <= y /\ y <= mask.y1

NoMask == [x0 |-> 1, x1 |-> 0, y0 |-> 1, y1 |-> 0]
Box(a, b, c, d) == [x0 |-> a, x1 |-> b, y0 |-> c, y1 |-> d]

(***************************************************************************)
(* cv2 on a contour (a sequence of integer points).                        *)
(***************************************************************************)
MinOf(S) == CHOOSE m \in S : \A k \in S : m <= k
MaxOf(S) == CHOOSE m \in S : \A k \in S : m >= k

\* cv2.boundingRect: the upright box of the points, in pixels
BoundingRect(pts) ==
    LET xs == {pts[i][1] : i \in 1..Len(pts)}
        ys == {pts[i][2] : i \in 1..Len(pts)}
    IN  [x |-> MinOf(xs), y |-> MinOf(ys),
         w |-> MaxOf(xs) - MinOf(xs) + 1, h |-> MaxOf(ys) - MinOf(ys) + 1]

RECURSIVE Shoelace(_, _)
Shoelace(pts, i) ==
    IF i > Len(pts) THEN 0
    ELSE LET p == pts[i]
             q == pts[IF i = Len(pts) THEN 1 ELSE i + 1]
         IN  p[1] * q[2] - q[1] * p[2] + Shoelace(pts, i + 1)

\* twice cv2.contourArea: the polygon area of the points
ContourArea2(pts) == IF Len(pts) = 0 THEN 0 ELSE Abs(Shoelace(pts, 1))

\* cv2.minAreaRect(contour)[1]: the side lengths of the smallest enclosing
\* rectangle, which the frame carries with the contour
MinAreaRect(contour) == contour.rect

Cross(o, a, b) == (a[1] - o[1]) * (b[2] - o[2]) - (a[2] - o[2]) * (b[1] - o[1])

RECURSIVE Wrap(_, _, _, _)
Wrap(S, start, cur, acc) ==
    LET nxt == CHOOSE q \in S \ {cur} :
                   \A r \in S : /\ Cross(cur, q, r) >= 0
                                /\ Cross(cur, q, r) = 0 => Dist2(cur, r) <= Dist2(cur, q)
    IN  IF nxt = start THEN acc ELSE Wrap(S, start, nxt, Append(acc, nxt))

Rotate(s, k) ==
    IF Len(s) = 0 THEN s
    ELSE [i \in 1..Len(s) |-> s[((i - 1 + k) % Len(s)) + 1]]

Reverse(s) == [i \in 1..Len(s) |-> s[Len(s) + 1 - i]]

\* cv2.convexHull: the vertices of the hull of the points, as a cycle; which
\* way round and from which vertex is the library's convention, conv
ConvexHull(pts, cv) ==
    LET S == Range(pts)
        start == CHOOSE p \in S : \A q \in S :
                     p[2] < q[2] \/ (p[2] = q[2] /\ p[1] <= q[1])
        ccw == IF Cardinality(S) = 1 THEN <<start>>
               ELSE Wrap(S, start, start, <<start>>)
    IN  Rotate(IF cv.cw THEN Reverse(ccw) ELSE ccw, cv.rot)

Convs == [cw : BOOLEAN, rot : 0..MaxRot]

(***************************************************************************)
(* find_line_endpoints (line_finder.py) and LineDetector.find_line_endpoints*)
(* (main.py).  dist > max_dist is decided on the squares: np.sqrt is       *)
(* increasing and tells the integers of this range apart.                  *)
(***************************************************************************)
RECURSIVE PairScan(_, _, _, _)
PairScan(hull_points, i, j, st) ==
    IF i > Len(hull_points) THEN st
    ELSE IF j > Len(hull_points) THEN PairScan(hull_points, i + 1, i + 2, st)
    ELSE LET d2 == Dist2(hull_points[i], hull_points[j])
         IN  PairScan(hull_points, i, j + 1,
                      IF d2 > st.max_dist
                      THEN [max_dist |-> d2, p1 |-> hull_points[i], p2 |-> hull_points[j]]
                      ELSE st)

RECURSIVE PairScanGE(_, _, _, _)
PairScanGE(hull_points, i, j, st) ==
    IF i > Len(hull_points) THEN st
    ELSE IF j > Len(hull_points) THEN PairScanGE(hull_points, i + 1, i + 2, st)
    ELSE LET d2 == Dist2(hull_points[i], hull_points[j])
         IN  PairScanGE(hull_points, i, j + 1,
                        IF d2 >= st.max_dist
                        THEN [max_dist |-> d2, p1 |-> hull_points[i], p2 |-> hull_points[j]]
                        ELSE st)

FindLineEndpointsLastPair(points, cv) ==
    IF Len(points) < 2 THEN [p1 |-> <<0, 0>>, p2 |-> <<0, 0>>, hull |-> FALSE]
    ELSE LET useHull == Len(points) > HULL_OVER
             hull_points == IF useHull THEN ConvexHull(points, cv) ELSE points
             st == PairScanGE(hull_points, 1, 2,
                            [max_dist |-> 0, p1 |-> points[1], p2 |-> points[Len(points)]])
         IN  [p1 |-> st.p1, p2 |-> st.p2, hull |-> useHull]


\* line_finder.py; hull records whether cv2.convexHull was called
FindLineEndpoints(points, cv) ==
    IF Len(points) < 2 THEN [p1 |-> <<0, 0>>, p2 |-> <<0, 0>>, hull |-> FALSE]
    ELSE LET useHull == Len(points) > HULL_OVER
             hull_points == IF useHull THEN ConvexHull(points, cv) ELSE points
             st == PairScan(hull_points, 1, 2,
                            [max_dist |-> 0, p1 |-> points[1], p2 |-> points[Len(points)]])
         IN  [p1 |-> st.p1, p2 |-> st.p2, hull |-> useHull]

\* main.py: the hull is taken before max_dist, p1, p2 are set
LD_FindLineEndpoints(points, cv) ==
    IF Len(points) < 2 THEN [p1 |-> <<0, 0>>, p2 |-> <<0, 0>>, hull |-> FALSE]
    ELSE LET useHull == Len(points) > HULL_OVER
             hull_points == IF useHull THEN ConvexHull(points, cv) ELSE points
             st == PairScan(hull_points, 1, 2,
                            [max_dist |-> 0, p1 |-> points[1], p2 |-> points[Len(points)]])
         IN  [p1 |-> st.p1, p2 |-> st.p2, hull |-> useHull]

(***************************************************************************)
(* check_black_at_ends (line_finder.py) and LineDetector.check_black_at_ends*)
(* (main.py).  A walk is the run of has_black_ahead: one record per        *)
(* distance tried, until it returns.                                       *)
(***************************************************************************)
RECURSIVE AheadWalk(_, _, _, _, _, _, _, _, _, _)
AheadWalk(mask, w, h, px, py, cx, cy, n, dist, check_radius) ==
    IF dist >= check_radius THEN <<>>
    ELSE LET check_x == StepCoord(px, cx, n, dist)
             check_y == StepCoord(py, cy, n, dist)
             inside == 0 <= check_x /\ check_x < w /\ 0 <= check_y /\ check_y < h
             hit == inside /\ BlackAt(mask, check_x, check_y)
         IN  <<[dist |-> dist, x |-> check_x, y |-> check_y,
                sampled |-> inside, hit |-> hit]>>
             \o (IF hit THEN <<>>
                 ELSE AheadWalk(mask, w, h, px, py, cx, cy, n, dist + 1, check_radius))

\* has_black_ahead returned True: its walk ended on a hit
WalkOk(walk) == Len(walk) > 0 /\ walk[Len(walk)].hit

CheckBlackAtEndsAnd(mask, w, h, p1, p2, direction, check_radius) ==
    LET n == Norm2(direction[1], direction[2])
    IN  IF n = 0 THEN [ret |-> TRUE, fault |-> FALSE, walk1 |-> <<>>, walk2 |-> <<>>]
        ELSE LET walk1 == AheadWalk(mask, w, h, p1[1], p1[2], -direction[1], -direction[2],
                                    n, FIRST_DIST, check_radius)
                 walk2 == AheadWalk(mask, w, h, p2[1], p2[2], direction[1], direction[2],
                                    n, FIRST_DIST, check_radius)
             IN  [ret |-> WalkOk(walk1) /\ WalkOk(walk2), fault |-> FALSE,
                  walk1 |-> walk1, walk2 |-> walk2]

CheckBlackAtEndsNoGuard(mask, w, h, p1, p2, direction, check_radius) ==
    LET n == Norm2(direction[1], direction[2])
    IN  IF n = 0 THEN [ret |-> FALSE, fault |-> TRUE, walk1 |-> <<>>, walk2 |-> <<>>]
        ELSE LET walk1 == AheadWalk(mask, w, h, p1[1], p1[2], -direction[1], -direction[2],
                                    n, FIRST_DIST, check_radius)
                 walk2 == AheadWalk(mask, w, h, p2[1], p2[2], direction[1], direction[2],
                                    n, FIRST_DIST, check_radius)
             IN  [ret |-> WalkOk(walk1) \/ WalkOk(walk2), fault |-> FALSE,
                  walk1 |-> walk1, walk2 |-> walk2]

\* line_finder.py.  fault: a division by a zero length was reached
CheckBlackAtEnds(mask, w, h, p1, p2, direction, check_radius) ==
    LET n == Norm2(direction[1], direction[2])
    IN  IF n = 0 THEN [ret |-> TRUE, fault |-> FALSE, walk1 |-> <<>>, walk2 |-> <<>>]
        ELSE LET walk1 == AheadWalk(mask, w, h, p1[1], p1[2], -direction[1], -direction[2],
                                    n, FIRST_DIST, check_radius)
                 walk2 == AheadWalk(mask, w, h, p2[1], p2[2], direction[1], direction[2],
                                    n, FIRST_DIST, check_radius)
             IN  [ret |-> WalkOk(walk1) \/ WalkOk(walk2), fault |-> FALSE,
                  walk1 |-> walk1, walk2 |-> walk2]

\* main.py
LD_CheckBlackAtEnds(mask, w, h, p1, p2, direction, check_radius) ==
    LET n == Norm2(direction[1], direction[2])
    IN  IF n = 0 THEN [ret |-> TRUE, fault |-> FALSE, walk1 |-> <<>>, walk2 |-> <<>>]
        ELSE LET walk1 == AheadWalk(mask, w, h, p1[1], p1[2], -direction[1], -direction[2],
                                    n, FIRST_DIST, check_radius)
                 walk2 == AheadWalk(mask, w, h, p2[1], p2[2], direction[1], direction[2],
                                    n, FIRST_DIST, check_radius)
             IN  [ret |-> WalkOk(walk1) \/ WalkOk(walk2), fault |-> FALSE,
                  walk1 |-> walk1, walk2 |-> walk2]

(***************************************************************************)
(* The body of the loop over the contours: find_lines (line_finder.py) and *)
(* LineDetector.detect (main.py).  stage says where the body left off:     *)
(* the continue it took, or "valid" when it appended.                      *)
(***************************************************************************)
Measure(contour) ==
    LET br == BoundingRect(contour.pts)
        dims == IF Len(contour.pts) >= RECT_FROM THEN MinAreaRect(contour)
                ELSE <<br.w, br.h>>
    IN  [area2 |-> ContourArea2(contour.pts),
         thickness |-> Min2(dims[1], dims[2]),
         length |-> Max2(dims[1], dims[2])]

\* aspect_ratio = length / max(thickness, 1); aspect_ratio < 3
AspectDivisor(thickness) == Max2(thickness, 1)
AspectBelow(length, thickness) == length < MIN_ASPECT * AspectDivisor(thickness)

ShapeStageLoose(m) ==
    IF m.area2 <= 2 * MIN_AREA THEN "area"
    ELSE IF m.thickness <= MIN_LINE_THICKNESS \/ m.thickness >= MAX_LINE_THICKNESS
         THEN "thickness"
    ELSE IF m.length <= MIN_LINE_LENGTH THEN "length"
    ELSE IF m.length <= MIN_ASPECT * AspectDivisor(m.thickness) THEN "aspect"
    ELSE "pass"

\* lines 111-134: which continue the measurements m take, or "pass"
ShapeStage(m) ==
    IF m.area2 < 2 * MIN_AREA THEN "area"
    ELSE IF m.thickness < MIN_LINE_THICKNESS \/ m.thickness > MAX_LINE_THICKNESS
         THEN "thickness"
    ELSE IF m.length < MIN_LINE_LENGTH THEN "length"
    ELSE IF AspectBelow(m.length, m.thickness) THEN "aspect"
    ELSE "pass"

\* main.py, lines 101-123
LD_ShapeStage(m) ==
    IF m.area2 < 2 * MIN_AREA THEN "area"
    ELSE IF m.thickness < MIN_LINE_THICKNESS \/ m.thickness > MAX_LINE_THICKNESS
         THEN "thickness"
    ELSE IF m.length < MIN_LINE_LENGTH THEN "length"
    ELSE IF AspectBelow(m.length, m.thickness) THEN "aspect"
    ELSE "pass"

NoPoint == <<0, 0>>
Rejected(stage, m) ==
    [stage |-> stage, p1 |-> NoPoint, p2 |-> NoPoint, length |-> m.length,
     thickness |-> m.thickness, area2 |-> m.area2, fault |-> FALSE]

FindLinesBodyNoEndCheck(image, contour, cv) ==
    LET m == Measure(contour)
        stage == ShapeStage(m)
    IN  IF stage # "pass" THEN Rejected(stage, m)
        ELSE LET e == FindLineEndpoints(contour.pts, cv)
             IN  [stage |-> "valid", p1 |-> e.p1, p2 |-> e.p2, length |-> m.length,
                  thickness |-> m.thickness, area2 |-> m.area2, fault |-> FALSE]

\* line_finder.py, lines 110-147
FindLinesBody(image, contour, cv) ==
    LET m == Measure(contour)
        stage == ShapeStage(m)
    IN  IF stage # "pass" THEN Rejected(stage, m)
        ELSE LET e == FindLineEndpoints(contour.pts, cv)
                 direction == <<e.p2[1] - e.p1[1], e.p2[2] - e.p1[2]>>
                 c == CheckBlackAtEnds(image.black, image.w, image.h, e.p1, e.p2,
                                       direction, CHECK_RADIUS)
             IN  [stage |-> IF c.ret THEN "valid" ELSE "ends",
                  p1 |-> e.p1, p2 |-> e.p2, length |-> m.length,
                  thickness |-> m.thickness, area2 |-> m.area2, fault |-> c.fault]

\* main.py, lines 100-131
DetectBody(image, contour, cv) ==
    LET m == Measure(contour)
        stage == LD_ShapeStage(m)
    IN  IF stage # "pass" THEN Rejected(stage, m)
        ELSE LET e == LD_FindLineEndpoints(contour.pts, cv)
                 direction == <<e.p2[1] - e.p1[1], e.p2[2] - e.p1[2]>>
                 c == LD_CheckBlackAtEnds(image.black, image.w, image.h, e.p1, e.p2,
                                          direction, CHECK_RADIUS)
             IN  [stage |-> IF c.ret THEN "valid" ELSE "ends",
                  p1 |-> e.p1, p2 |-> e.p2, length |-> m.length,
                  thickness |-> m.thickness, area2 |-> m.area2, fault |-> c.fault]

\* Python's max(seq, key): the first element whose key no other exceeds
RECURSIVE MaxScan(_, _, _)
MaxScan(s, i, best) ==
    IF i > Len(s) THEN best
    ELSE MaxScan(s, i + 1, IF s[i].length > best.length THEN s[i] ELSE best)

RECURSIVE MaxScanLast(_, _, _)
MaxScanLast(s, i, best) ==
    IF i > Len(s) THEN best
    ELSE MaxScanLast(s, i + 1, IF s[i].length >= best.length THEN s[i] ELSE best)

LongestLast(s) == MaxScanLast(s, 2, s[1])

\* max(valid_lines, key=lambda l: l.length), s not empty
Longest(s) == MaxScan(s, 2, s[1])


\* main.py line 137: max(valid_lines, key=lambda l: l[4])
LD_Longest(s) == MaxScan(s, 2, s[1])

(***************************************************************************)
(* SpecFn: one direct call of a helper function on arguments drawn from    *)
(* bounded sets.                                                           *)
(***************************************************************************)
Conv0 == [cw |-> FALSE, rot |-> 0]
NoWalks == [ret |-> FALSE, fault |-> FALSE, walk1 |-> <<>>, walk2 |-> <<>>]
NoEnds == [p1 |-> NoPoint, p2 |-> NoPoint, hull |-> FALSE]
NoMeasure == [area2 |-> 0, thickness |-> 0, length |-> 0]
NoOut == [done |-> FALSE, by |-> "none", ends |-> NoWalks, ep |-> NoEnds,
          stage |-> "none", fault |-> FALSE]

FnPixels == (0..(FnW - 1)) \X (0..(FnH - 1))
EndPts == {0, 1, 4, FnW - 1} \X (0..(FnH - 1))
FnMasks == {NoMask, Box(0, FnW - 1, 0, FnH - 1)}
           \cup {Box(p[1], p[1], p[2], p[2]) : p \in FnPixels}
Grid == (0..GridX) \X (0..1)
Boundaries == UNION {[1..n -> Grid] : n \in 0..(HULL_OVER + 1)}
Measures == [area2 : {0, 2 * MIN_AREA - 1, 2 * MIN_AREA, 8 * MIN_AREA},
             thickness : {0, 1, MIN_LINE_THICKNESS, 10, MAX_LINE_THICKNESS,
                          MAX_LINE_THICKNESS + 1},
             length : {0, MIN_LINE_LENGTH - 1, MIN_LINE_LENGTH,
                       3 * MAX_LINE_THICKNESS - 1, 3 * MAX_LINE_THICKNESS, 60}]

EndsCalls == {[kind |-> "ends", black |-> m, p1 |-> a, p2 |-> b,
               points |-> <<>>, m |-> NoMeasure] :
                  m \in FnMasks, a \in EndPts, b \in EndPts}
PointCalls == {[kind |-> "endpoints", black |-> NoMask, p1 |-> NoPoint, p2 |-> NoPoint,
                points |-> s, m |-> NoMeasure] : s \in Boundaries}
ShapeCalls == {[kind |-> "shape", black |-> NoMask, p1 |-> NoPoint, p2 |-> NoPoint,
                points |-> <<>>, m |-> x] : x \in Measures}

NoCall == [kind |-> "none", black |-> NoMask, p1 |-> NoPoint, p2 |-> NoPoint,
           points |-> <<>>, m |-> NoMeasure]
NoLine == [stage |-> "none", p1 |-> NoPoint, p2 |-> NoPoint, length |-> 0,
           thickness |-> 0, area2 |-> 0, fault |-> FALSE]
NoImg == [w |-> 0, h |-> 0, black |-> NoMask, contours |-> <<>>]
NoCanvas == [alpha |-> 1, shown |-> <<>>]
NoMemo == [set |-> FALSE, other |-> FALSE, img |-> NoImg, result |-> <<>>]

PipeIdle ==
    /\ img = NoImg /\ pc = "off" /\ idx = 0 /\ valid_lines = <<>> /\ seen = <<>>
    /\ lines = <<>> /\ line = NoLine /\ d_valid = <<>> /\ d_seen = <<>>
    /\ result = <<"NotRun">>
    /\ memo = NoMemo
OverlayIdle ==
    /\ loop = "off" /\ pend = 0 /\ canvas = NoCanvas /\ raised = FALSE
    /\ iters = 0 /\ sched = 0 /\ lateRuns = 0 /\ quitRan = FALSE /\ click = "off"
FnIdle == call = NoCall /\ out = NoOut

InitFn ==
    /\ call \in EndsCalls \cup PointCalls \cup ShapeCalls
    /\ out = NoOut
    /\ conv \in IF call.kind = "endpoints" /\ Len(call.points) > HULL_OVER
                THEN [cw : BOOLEAN, rot : {0}] ELSE {Conv0}
    /\ PipeIdle
    /\ OverlayIdle

\* the direction the callers pass: p2 - p1 (line_finder.py:137, main.py:126)
DirectionOf(p1, p2) == <<p2[1] - p1[1], p2[2] - p1[2]>>

CallCheckBlackAtEnds ==
    /\ call.kind = "ends" /\ ~out.done
    /\ out' = [NoOut EXCEPT !.done = TRUE, !.by = "line_finder",
                  !.ends = CheckBlackAtEnds(call.black, FnW, FnH, call.p1, call.p2,
                                            DirectionOf(call.p1, call.p2), CHECK_RADIUS)]
    /\ UNCHANGED <<call, conv, pipeVars, ovVars>>

CallLDCheckBlackAtEnds ==
    /\ call.kind = "ends" /\ ~out.done
    /\ out' = [NoOut EXCEPT !.done = TRUE, !.by = "main",
                  !.ends = LD_CheckBlackAtEnds(call.black, FnW, FnH, call.p1, call.p2,
                                               DirectionOf(call.p1, call.p2), CHECK_RADIUS)]
    /\ UNCHANGED <<call, conv, pipeVars, ovVars>>

CallFindLineEndpoints ==
    /\ call.kind = "endpoints" /\ ~out.done
    /\ out' = [NoOut EXCEPT !.done = TRUE, !.by = "line_finder",
                  !.ep = FindLineEndpoints(call.points, conv)]
    /\ UNCHANGED <<call, conv, pipeVars, ovVars>>

CallLDFindLineEndpoints ==
    /\ call.kind = "endpoints" /\ ~out.done
    /\ out' = [NoOut EXCEPT !.done = TRUE, !.by = "main",
                  !.ep = LD_FindLineEndpoints(call.points, conv)]
    /\ UNCHANGED <<call, conv, pipeVars, ovVars>>

\* the shape tests of the loop body on measurements m; fault: the aspect
\* ratio was computed with a divisor of 0
CallShapeFilter ==
    /\ call.kind = "shape" /\ ~out.done
    /\ out' = [NoOut EXCEPT !.done = TRUE, !.by = "line_finder",
                  !.stage = ShapeStage(call.m),
                  !.fault = (ShapeStage(call.m) \in {"aspect", "pass"}
                             /\ AspectDivisor(call.m.thickness) = 0)]
    /\ UNCHANGED <<call, conv, pipeVars, ovVars>>

NextFn ==
    \/ CallCheckBlackAtEnds
    \/ CallLDCheckBlackAtEnds
    \/ CallFindLineEndpoints
    \/ CallLDFindLineEndpoints
    \/ CallShapeFilter

SpecFn == InitFn /\ [][NextFn]_vars

(***************************************************************************)
(* Claims on the helper functions (SpecFn).                                *)
(***************************************************************************)
Dists == FIRST_DIST..(CHECK_RADIUS - 1)

\* the pixel stepped d from endpoint p in the direction away from endpoint far
\* is inside the image and set in the dark mask
DarkAhead(mask, w, h, p, far, d) ==
    LET c == DirectionOf(far, p)
        n == Norm2(c[1], c[2])
        x == StepCoord(p[1], c[1], n, d)
        y == StepCoord(p[2], c[2], n, d)
    IN  0 <= x /\ x < w /\ 0 <= y /\ y < h /\ BlackAt(mask, x, y)

EndsDone == out.done /\ call.kind = "ends"

PointsDone == out.done /\ call.kind = "endpoints"
Searched == IF Len(call.points) > HULL_OVER THEN ConvexHull(call.points, conv)
            ELSE call.points
PairBefore(i, j, k, l) == i < k \/ (i = k /\ j < l)

FarthestFirst(pts, e, H) ==
    LET far == Dist2(e.p1, e.p2)
    IN  IF Len(pts) < 2 THEN e.p1 = <<0, 0>> /\ e.p2 = <<0, 0>>
        ELSE /\ e.p1 \in Range(pts) /\ e.p2 \in Range(pts)
             /\ \A a \in Range(pts) : \A b \in Range(pts) : Dist2(a, b) <= far
             /\ \A k \in 1..Len(H) : \A l \in (k + 1)..Len(H) :
                    (/\ Dist2(H[k], H[l]) = far
                     /\ \A i \in 1..k : \A j \in (i + 1)..Len(H) :
                            PairBefore(i, j, k, l) => Dist2(H[i], H[j]) < far)
                    => (e.p1 = H[k] /\ e.p2 = H[l])

\* C4: find_line_endpoints returns two boundary points at the greatest
\* distance any two boundary points have (also when it searches the hull),
\* the first such pair in iteration order; with fewer than 2 points it
\* returns ((0,0),(0,0)).
C4_FarthestPair == PointsDone => FarthestFirst(call.points, out.ep, Searched)

OtherFarPair(e, H) ==
    /\ Len(H) >= 4
    /\ \E k \in 1..Len(H) : \E l \in 1..Len(H) :
           /\ k < l
           /\ {H[k], H[l]} # {e.p1, e.p2}
           /\ Dist2(H[k], H[l]) = Dist2(e.p1, e.p2)

\* a boundary of more than 4 points, searched over its hull, with two
\* different pairs at the greatest distance
C4_HullTie ==
    /\ PointsDone /\ out.ep.hull /\ Len(call.points) > HULL_OVER
    /\ OtherFarPair(out.ep, Searched)

\* C7: the numeric edge cases yield a default and no fault: a zero-length
\* direction makes check_black_at_ends return true without normalising or
\* walking; a thickness of 0 reaches no division by zero; a boundary of fewer
\* than 2 points yields ((0,0),(0,0)) and one of at most 4 points yields a
\* pair of its points, neither calling the hull.
C7_EdgeDefaults ==
    out.done =>
        /\ ~out.fault /\ ~out.ends.fault
        /\ (call.kind = "ends" /\ call.p1 = call.p2) =>
               (out.ends.ret /\ out.ends.walk1 = <<>> /\ out.ends.walk2 = <<>>)
        /\ (call.kind = "shape" /\ call.m.thickness = 0) => out.stage # "pass"
        /\ (call.kind = "endpoints" /\ Len(call.points) < 2) =>
               (out.ep = [p1 |-> <<0, 0>>, p2 |-> <<0, 0>>, hull |-> FALSE])
        /\ (call.kind = "endpoints" /\ Len(call.points) >= 2
                /\ Len(call.points) <= HULL_OVER) =>
               (~out.ep.hull /\ out.ep.p1 \in Range(call.points)
                             /\ out.ep.p2 \in Range(call.points))

\* a call with a zero-length direction has returned
C7_ZeroDirection == EndsDone /\ call.p1 = call.p2 /\ out.ends.ret

\* the position stepped d from p away from far, before int(), is in the image
PosAhead(w, h, p, far, d) ==
    LET c == DirectionOf(far, p)
        n == Norm2(c[1], c[2])
    IN  PosInside(p[1], c[1], n, d, w) /\ PosInside(p[2], c[2], n, d, h)

SkipsOutside(walk, w, h, p, far) ==
    \A i \in 1..Len(walk) :
        ~PosAhead(w, h, p, far, walk[i].dist) =>
            /\ ~walk[i].sampled /\ ~walk[i].hit
            /\ walk[i].dist < CHECK_RADIUS - 1 =>
                   (i < Len(walk) /\ walk[i + 1].dist = walk[i].dist + 1)

\* C8: at every distance whose stepped position, before integer conversion,
\* lies outside the image, the dark mask is not sampled, the step is neither
\* a success nor a failure, and the walk goes on with the next distance.
C8_OutsideSkipped ==
    (EndsDone /\ call.p1 # call.p2) =>
        /\ SkipsOutside(out.ends.walk1, FnW, FnH, call.p1, call.p2)
        /\ SkipsOutside(out.ends.walk2, FnW, FnH, call.p2, call.p1)

(***************************************************************************)
(* Frames.  A frame holds what the pipeline reads of an image: its size,   *)
(* its dark mask, and the contours cv2.findContours returns for its white  *)
(* mask, each with the sides of its minimum-area rectangle.  The i-th      *)
(* contour lies in the i-th band of the frame; no dark pixel lies in the   *)
(* upright box of a contour (a pixel is not both white and dark).          *)
(***************************************************************************)
\* a filled W x H block of white pixels at (x, y): its four corners
Bar(x, y, W, H) ==
    [pts |-> <<<<x, y>>, <<x, y + H - 1>>, <<x + W - 1, y + H - 1>>, <<x + W - 1, y>>>>,
     rect |-> <<W - 1, H - 1>>]

\* a single white pixel
Dot(x, y) == [pts |-> <<<<x, y>>>>, rect |-> <<0, 0>>]

\* a W x H block with its four corner pixels cut off: eight points
Oct(x, y, W, H) ==
    [pts |-> <<<<x + 1, y>>, <<x, y + 1>>, <<x, y + H - 2>>, <<x + 1, y + H - 1>>,
               <<x + W - 2, y + H - 1>>, <<x + W - 1, y + H - 2>>,
               <<x + W - 1, y + 1>>, <<x + W - 2, y>>>>,
     rect |-> <<W - 1, H - 1>>]

\* a slanted block: sides k * (4, 3) and m * (-3, 4), of lengths 5k and 5m,
\* with one more boundary point on its long side
Slant(x, y, k, m) ==
    [pts |-> <<<<x, y>>, <<x - 3 * m, y + 4 * m>>,
               <<x + 4 * k - 3 * m, y + 3 * k + 4 * m>>, <<x + 4 * k, y + 3 * k>>,
               <<x + 4, y + 3>>>>,
     rect |-> <<5 * k, 5 * m>>]

Shapes(oy) ==
    {Bar(4, oy + 2, 40, 6), Bar(4, oy + 2, 40, 8),
     Bar(4, oy + 2, 30, 10), Bar(4, oy + 2, 29, 10),
     Bar(4, oy + 2, 45, 15), Bar(4, oy + 2, 48, 16),
     Bar(4, oy + 2, 52, 2), Dot(4, oy + 2),
     Bar(4, oy + 2, 33, 12), Oct(4, oy + 2, 40, 6),
     Slant(8, oy + 2, 7, 1), Bar(4, oy, 40, 3)}

\* the contours a frame may hold below its first band
ShapesBelow(oy) ==
    {Bar(4, oy + 2, 40, 6), Bar(4, oy + 2, 40, 8), Bar(4, oy + 2, 29, 10),
     Oct(4, oy + 2, 40, 6)}

BandShapes(i) == IF i = 1 THEN Shapes(0) ELSE ShapesBelow((i - 1) * BandH)

ContourLists ==
    UNION {{s \in [1..n -> UNION {BandShapes(i) : i \in 1..n}] :
                \A i \in 1..n : s[i] \in BandShapes(i)} : n \in 0..MaxContours}

ImgH == MaxContours * BandH

DarkMasks ==
    {NoMask}
    \cup {Box(c, ImgW - 1, 0, ImgH - 1) : c \in {46, 57, 61, 62}}
    \cup {Box(0, c, 0, ImgH - 1) : c \in {0, 1}}
    \cup {Box(1, 1, 1, 1), Box(2, 2, 1, 1)}

Overlaps(mask, contour) ==
    LET br == BoundingRect(contour.pts)
    IN  /\ mask.x0 <= br.x + br.w - 1 /\ br.x <= mask.x1
        /\ mask.y0 <= br.y + br.h - 1 /\ br.y <= mask.y1

Frames ==
    {[w |-> ImgW, h |-> ImgH, black |-> m, contours |-> cs] :
        cs \in ContourLists, m \in DarkMasks}

WellFormed(f) == \A i \in 1..Len(f.contours) : ~Overlaps(f.black, f.contours[i])

\* the frames of a run of several calls
SeqFrames ==
    {[w |-> ImgW, h |-> ImgH, black |-> m, contours |-> cs] :
        cs \in {<<>>, <<Bar(4, 2, 40, 6)>>, <<Bar(4, 2, 29, 10)>>,
                <<Bar(4, 2, 30, 10), Oct(4, BandH + 2, 40, 6)>>},
        m \in {NoMask, Box(0, 1, 0, ImgH - 1), Box(61, ImgW - 1, 0, ImgH - 1)}}

(***************************************************************************)
(* The pipeline run on a frame: find_lines and main's choice of            *)
(* line_finder.py, then LineDetector.detect of main.py.                    *)
(***************************************************************************)
DetectedLine(r) ==
    [x1 |-> r.p1[1], y1 |-> r.p1[2], x2 |-> r.p2[1], y2 |-> r.p2[2],
     length |-> r.length, thickness |-> r.thickness]

\* main.py line 131: (p1[0], p1[1], p2[0], p2[1], length)
LineTuple(r) ==
    [x1 |-> r.p1[1], y1 |-> r.p1[2], x2 |-> r.p2[1], y2 |-> r.p2[2],
     length |-> r.length]

None == <<"None">>
NotRun == <<"NotRun">>

\* line_finder.py lines 105-108
FL_Start ==
    /\ pc = "fl_start"
    /\ valid_lines' = <<>>
    /\ idx' = 1
    /\ pc' = "fl_loop"
    /\ UNCHANGED <<img, seen, lines, line, d_valid, d_seen, result, memo,
                   call, out, conv, ovVars>>

\* one pass of the loop body, lines 110-147
FL_Iter ==
    /\ pc = "fl_loop" /\ idx <= Len(img.contours)
    /\ LET r == FindLinesBody(img, img.contours[idx], conv)
       IN  /\ seen' = Append(seen, r)
           /\ valid_lines' = IF r.stage = "valid"
                             THEN Append(valid_lines, DetectedLine(r))
                             ELSE valid_lines
    /\ idx' = idx + 1
    /\ UNCHANGED <<img, pc, lines, line, d_valid, d_seen, result, memo,
                   call, out, conv, ovVars>>

\* line 149, and main's lines = find_lines(img), line 174
FL_Return ==
    /\ pc = "fl_loop" /\ idx > Len(img.contours)
    /\ lines' = valid_lines
    /\ pc' = "lf_main"
    /\ UNCHANGED <<img, idx, valid_lines, seen, line, d_valid, d_seen, result, memo,
                   call, out, conv, ovVars>>

\* main, lines 177-178 and 205
LF_Select ==
    /\ pc = "lf_main"
    /\ line' = IF lines # <<>> THEN Longest(lines) ELSE NoLine
    /\ pc' = "d_start"
    /\ UNCHANGED <<img, idx, valid_lines, seen, lines, d_valid, d_seen, result, memo,
                   call, out, conv, ovVars>>

D_StartNoReset ==
    /\ pc = "d_start"
    /\ idx' = 1
    /\ pc' = "d_loop"
    /\ UNCHANGED <<img, valid_lines, seen, lines, line, d_valid, d_seen, result, memo,
                   call, out, conv, ovVars>>

\* main.py lines 95-98
D_Start ==
    /\ pc = "d_start"
    /\ d_valid' = <<>>
    /\ idx' = 1
    /\ pc' = "d_loop"
    /\ UNCHANGED <<img, valid_lines, seen, lines, line, d_seen, result, memo,
                   call, out, conv, ovVars>>

\* one pass of the loop body, main.py lines 100-131
D_Iter ==
    /\ pc = "d_loop" /\ idx <= Len(img.contours)
    /\ LET r == DetectBody(img, img.contours[idx], conv)
       IN  /\ d_seen' = Append(d_seen, r)
           /\ d_valid' = IF r.stage = "valid" THEN Append(d_valid, LineTuple(r))
                         ELSE d_valid
    /\ idx' = idx + 1
    /\ UNCHANGED <<img, pc, valid_lines, seen, lines, line, result, memo,
                   call, out, conv, ovVars>>

\* main.py lines 133-138
D_Return ==
    /\ pc = "d_loop" /\ idx > Len(img.contours)
    /\ result' = IF d_valid = <<>> THEN None
                 ELSE LET best == LD_Longest(d_valid)
                      IN  <<best.x1, best.y1, best.x2, best.y2>>
    /\ pc' = "done"
    /\ memo' = IF memo.set /\ memo.img # img THEN [memo EXCEPT !.other = TRUE] ELSE memo
    /\ UNCHANGED <<img, idx, valid_lines, seen, lines, line, d_valid, d_seen,
                   call, out, conv, ovVars>>

\* a finished detect call is remembered, to compare later calls with
Remember ==
    /\ pc = "done" /\ ~memo.set
    /\ memo' = [set |-> TRUE, other |-> FALSE, img |-> img, result |-> result]
    /\ UNCHANGED <<img, pc, idx, valid_lines, seen, lines, line, d_valid, d_seen, result,
                   call, out, conv, ovVars>>

\* the next frame is captured and analysed: the callers' locals of the
\* finished calls are gone, the lists the functions build are whatever the
\* last call left
NewFrame ==
    /\ pc = "done"
    /\ img' \in SeqFrames
    /\ pc' = "fl_start"
    /\ idx' = 0
    /\ seen' = <<>> /\ d_seen' = <<>>
    /\ lines' = <<>> /\ line' = NoLine /\ result' = NotRun
    /\ UNCHANGED <<valid_lines, d_valid, memo, call, out, conv, ovVars>>

PipeStart ==
    /\ pc = "fl_start" /\ idx = 0 /\ valid_lines = <<>> /\ seen = <<>>
    /\ lines = <<>> /\ line = NoLine /\ d_valid = <<>> /\ d_seen = <<>>
    /\ result = NotRun /\ memo = NoMemo

\* the hull's order matters to a frame only when some contour has a hull taken
UsesHull(f) == \E i \in 1..Len(f.contours) : Len(f.contours[i].pts) > HULL_OVER

Init ==
    /\ img \in Frames /\ WellFormed(img)
    /\ conv \in IF UsesHull(img) THEN Convs ELSE {Conv0}
    /\ PipeStart
    /\ FnIdle
    /\ OverlayIdle

Next ==
    \/ FL_Start
    \/ FL_Iter
    \/ FL_Return
    \/ LF_Select
    \/ D_Start
    \/ D_Iter
    \/ D_Return

Spec == Init /\ [][Next]_vars

InitSeq ==
    /\ img \in SeqFrames
    /\ conv = Conv0
    /\ PipeStart
    /\ FnIdle
    /\ OverlayIdle

NextSeq ==
    \/ FL_Start
    \/ FL_Iter
    \/ FL_Return
    \/ LF_Select
    \/ D_Start
    \/ D_Iter
    \/ D_Return
    \/ Remember
    \/ NewFrame

SpecSeq == InitSeq /\ [][NextSeq]_vars

(***************************************************************************)
(* Claims on the pipeline (Spec, SpecSeq).                                 *)
(***************************************************************************)
NearDists == 0..(CHECK_RADIUS - 1)

\* what every detected line is to satisfy, given its endpoints and measures
LineOk(p1, p2, length, thickness) ==
    /\ MIN_LINE_THICKNESS <= thickness /\ thickness <= MAX_LINE_THICKNESS
    /\ length >= MIN_LINE_LENGTH
    /\ length >= MIN_ASPECT * Max2(thickness, 1)
    /\ p1 # p2
    /\ \E d \in NearDists :
           \/ DarkAhead(img.black, img.w, img.h, p1, p2, d)
           \/ DarkAhead(img.black, img.w, img.h, p2, p1, d)

\* C1: every line find_lines appends, and the line LineDetector.detect
\* returns, has 2 <= thickness <= 15, length >= 30, length / max(thickness, 1)
\* >= 3, and a dark pixel less than 20 ahead of at least one endpoint.
C1_LineInvariant ==
    /\ \A i \in 1..Len(valid_lines) :
           LET l == valid_lines[i]
           IN  LineOk(<<l.x1, l.y1>>, <<l.x2, l.y2>>, l.length, l.thickness)
    /\ (pc = "done" /\ result # None) =>
           \E i \in 1..Len(d_seen) :
               /\ d_seen[i].stage = "valid"
               /\ result = <<d_seen[i].p1[1], d_seen[i].p1[2],
                             d_seen[i].p2[1], d_seen[i].p2[2]>>
               /\ LineOk(d_seen[i].p1, d_seen[i].p2, d_seen[i].length,
                         d_seen[i].thickness)

\* both pipelines have produced a line on a frame that also holds a contour
\* the termination check turned down
C1_LineProduced ==
    /\ pc = "done" /\ result # None /\ Len(valid_lines) >= 1
    /\ \E i \in 1..Len(seen) : seen[i].stage = "ends"

IsValid(r) == r.stage = "valid"
\* the first of the longest elements of a non-empty sequence
FirstLongest(s) ==
    s[CHOOSE k \in 1..Len(s) :
          /\ \A j \in 1..Len(s) : s[j].length <= s[k].length
          /\ \A j \in 1..(k - 1) : s[j].length < s[k].length]

\* C3: of the candidates that passed the shape filter and the termination
\* check, the one returned is of greatest length, the first such in contour
\* order; when none passed, the result is the not-found value.
C3_LongestFirst ==
    /\ pc \in {"d_start", "d_loop", "done"} =>
           LET passed == SelectSeq(seen, IsValid)
           IN  IF passed = <<>> THEN line = NoLine
               ELSE line = DetectedLine(FirstLongest(passed))
    /\ pc = "done" =>
           LET passed == SelectSeq(d_seen, IsValid)
           IN  IF passed = <<>> THEN result = None
               ELSE LET b == FirstLongest(passed)
                    IN  result = <<b.p1[1], b.p1[2], b.p2[1], b.p2[2]>>

\* two candidates of the same length passed, and the first was returned
C3_TieBroken ==
    /\ pc = "done" /\ Len(d_valid) = 2
    /\ d_valid[1].length = d_valid[2].length
    /\ d_valid[1].y1 # d_valid[2].y1
    /\ result = <<d_valid[1].x1, d_valid[1].y1, d_valid[1].x2, d_valid[1].y2>>

ReachedEndpoints(r) == r.stage \in {"ends", "valid"}

C6_SameFrameSameResult ==
    (pc = "done" /\ memo.set /\ memo.img = img) => result = memo.result

\* a frame analysed again, with another frame analysed in between
C6_AgainAfterOther ==
    /\ pc = "done" /\ memo.set /\ memo.other /\ memo.img = img
    /\ result # None

\* C10: the two copies agree: detect returns None exactly when find_lines
\* returns no line, and otherwise the endpoints of the line main picks with
\* max(lines, key=length).
C10_CopiesAgree ==
    pc = "done" =>
        /\ result = None <=> lines = <<>>
        /\ lines # <<>> => result = <<line.x1, line.y1, line.x2, line.y2>>

\* both copies ran on a frame with a contour searched over its hull and two
\* lines found
C10_BothRan ==
    /\ pc = "done" /\ Len(lines) = 2 /\ UsesHull(img)
    /\ result = <<line.x1, line.y1, line.x2, line.y2>>

(***************************************************************************)
(* The overlay (main.py, TrajectoryOverlay): Tk's event loop runs one      *)
(* callback at a time, each to its end.                                    *)
(***************************************************************************)
OverlayFrames ==
    {[w |-> ImgW, h |-> ImgH, black |-> m, contours |-> cs] :
        cs \in {<<>>, <<Bar(4, 2, 40, 6)>>},
        m \in {NoMask, Box(0, 1, 0, ImgH - 1)}}

\* __init__, lines 145-170, and run: both timers set, the event loop running
InitOverlay ==
    /\ loop = "mainloop" /\ pend = 1 /\ click = "pending"
    /\ canvas = NoCanvas /\ raised = FALSE
    /\ iters = 0 /\ sched = 0 /\ lateRuns = 0 /\ quitRan = FALSE
    /\ img = NoImg /\ pc = "off" /\ idx = 0 /\ valid_lines = <<>> /\ seen = <<>>
    /\ lines = <<>> /\ line = NoLine /\ d_valid = <<>> /\ d_seen = <<>>
    /\ result = NotRun /\ memo = NoMemo
    /\ conv = Conv0
    /\ FnIdle

\* make_click_through, lines 175-183: its own try/except
MakeClickThrough ==
    /\ loop = "mainloop" /\ click = "pending"
    /\ click' \in {"on", "failed"}
    /\ UNCHANGED <<loop, pend, canvas, raised, iters, sched, lateRuns, quitRan,
                   pipeVars, call, out, conv>>

\* a pending timer fires and update begins: lines 220-224
UpdateBegin ==
    /\ loop = "mainloop" /\ pend >= 1 /\ iters < MaxIters
    /\ pend' = pend - 1
    /\ iters' = iters + 1
    /\ lateRuns' = IF quitRan THEN lateRuns + 1 ELSE lateRuns
    /\ sched' = 0
    /\ raised' = FALSE
    /\ canvas' = [canvas EXCEPT !.alpha = 0]
    /\ loop' = "capture"
    /\ UNCHANGED <<quitRan, click, pipeVars, call, out, conv>>

\* lines 227-230: the screenshot is taken, or capture_screen raises
Capture ==
    /\ loop = "capture"
    /\ \/ /\ img' \in OverlayFrames
          /\ canvas' = [canvas EXCEPT !.alpha = 1]
          /\ pc' = "d_start" /\ idx' = 0 /\ d_seen' = <<>> /\ result' = NotRun
          /\ loop' = "detect"
          /\ UNCHANGED raised
       \/ /\ raised' = TRUE
          /\ loop' = "except"
          /\ UNCHANGED <<img, canvas, pc, idx, d_seen, result>>
    /\ UNCHANGED <<valid_lines, seen, lines, line, d_valid, memo, pend, iters, sched,
                   lateRuns, quitRan, click, call, out, conv>>

\* line 233: LineDetector.detect raises
DetectRaises ==
    /\ loop = "detect" /\ pc \in {"d_start", "d_loop"}
    /\ raised' = TRUE
    /\ pc' = "off"
    /\ loop' = "except"
    /\ UNCHANGED <<img, idx, valid_lines, seen, lines, line, d_valid, d_seen, result, memo,
                   pend, canvas, iters, sched, lateRuns, quitRan, click, call, out, conv>>

\* lines 235-242: the extended line is drawn, or the canvas cleared
Render ==
    /\ loop = "detect" /\ pc = "done"
    /\ canvas' = [canvas EXCEPT !.shown = IF result # None THEN <<"extended">> \o result
                                          ELSE <<>>]
    /\ pc' = "off"
    /\ loop' = "schedule"
    /\ UNCHANGED <<img, idx, valid_lines, seen, lines, line, d_valid, d_seen, result, memo,
                   pend, raised, iters, sched, lateRuns, quitRan, click, call, out, conv>>

HandlerReturns ==
    /\ loop = "except"
    /\ loop' = "mainloop"
    /\ UNCHANGED <<pend, canvas, raised, iters, sched, lateRuns, quitRan, click,
                   pipeVars, call, out, conv>>

\* lines 244-245: the except clause prints, and update goes on
Handler ==
    /\ loop = "except"
    /\ loop' = "schedule"
    /\ UNCHANGED <<pend, canvas, raised, iters, sched, lateRuns, quitRan, click,
                   pipeVars, call, out, conv>>

\* line 247: self.root.after(SCAN_INTERVAL_MS, self.update), and update returns
Schedule ==
    /\ loop = "schedule"
    /\ pend' = pend + 1
    /\ sched' = sched + 1
    /\ loop' = "mainloop"
    /\ UNCHANGED <<canvas, raised, iters, lateRuns, quitRan, click,
                   pipeVars, call, out, conv>>


\* quit, lines 249-252, on <Escape>: destroy() drops the pending timers and
\* sys.exit(0) ends the event loop
Quit ==
    /\ loop = "mainloop" /\ ~quitRan
    /\ quitRan' = TRUE
    /\ pend' = 0
    /\ click' = IF click = "pending" THEN "dropped" ELSE click
    /\ loop' = "exited"
    /\ UNCHANGED <<canvas, raised, iters, sched, lateRuns, pipeVars, call, out, conv>>

NextOverlay ==
    \/ MakeClickThrough
    \/ UpdateBegin
    \/ Capture
    \/ D_Start
    \/ D_Iter
    \/ D_Return
    \/ DetectRaises
    \/ Render
    \/ Handler
    \/ Schedule
    \/ Quit

SpecOverlay == InitOverlay /\ [][NextOverlay]_vars

\* C9: until quit, every update iteration, also one in which capture or
\* detection raised, ends having scheduled exactly one next iteration, so
\* that exactly one is pending whenever the event loop is idle; once the quit
\* handler has run, no update iteration starts.
C9_LoopLifecycle ==
    /\ (loop = "mainloop" /\ ~quitRan) => pend = 1
    /\ (loop = "mainloop" /\ iters > 0) => sched = 1
    /\ quitRan => (loop = "exited" /\ pend = 0)
    /\ lateRuns = 0

\* an iteration that raised has ended, after an earlier one, with the next
\* one scheduled
C9_RaisedAndRescheduled ==
    /\ loop = "mainloop" /\ raised /\ iters >= 2 /\ sched = 1 /\ pend = 1

====
